---------------------------- MODULE Spec2Model ----------------------------
(***************************************************************************)
(* Model of src/src/kafka/kafka_consumer.py: the per-record pipeline       *)
(* (handle_missing_fields, validate_data, process_data, the two send       *)
(* functions), the startup of main and the poll/process/route loop of      *)
(* process_messages.                                                       *)
(*                                                                         *)
(* JSON values are records [t, s, n] with t the Python type of the value;  *)
(* a dict is a function from its keys to such values.  An integer that     *)
(* does not fit the checker's integers is carried by its decimal literal   *)
(* in s (n = 0).                                                           *)
(***************************************************************************)
EXTENDS Integers, Sequences, FiniteSets, TLC

VARIABLES
    mode,            \* "unit": a function is called directly; "main": process_messages runs
    tz,              \* local time zone of the process, hours east of UTC, known
                     \*   once a conversion has read it
    fn,              \* unit: the function that was called, "none" before the call
    argSchema,       \* unit: the schema argument (sequence of field descriptors)
    argData,         \* unit: the dict argument as it was before the call
    ret,             \* unit: what the call returned, the dict as the call left it,
                     \*       the local missing_fields at its end
    schema,          \* main: the schema fetch_schema returned, << >> before
    subscribed,      \* main: consumer.subscribe was called
    pc,              \* main: position of the loop
    message,         \* main: what the last consumer.poll returned
    obj,             \* main: the object message.value() returns (data aliases it)
    data,            \* main: the local `data`: "unset", "ref" (the object) or "None"
    total_messages,  \* main: the running count
    received,        \* main: history, the value of every record as it was received
    calls,           \* main: history, every call of send_to_dlq / produce_processed_data
    outBuf,          \* main: produced to OUTPUT_TOPIC, not yet flushed
    outTopic,        \* main: delivered to OUTPUT_TOPIC
    dlqBuf,          \* main: produced to DLQ_TOPIC, not yet flushed
    dlqTopic,        \* main: delivered to DLQ_TOPIC
    cleanup,         \* main: the steps of the finally block done so far
    stopCause        \* main: why the loop was left, "none" while it runs

vars == << mode, tz, fn, argSchema, argData, ret, schema, subscribed, pc, message, obj,
           data,           total_messages, received, calls, outBuf, outTopic, dlqBuf, dlqTopic,
           cleanup, stopCause >>

unitVars == << fn, argSchema, argData, ret >>

startVars == << schema, subscribed >>

mainVars == << schema, subscribed, pc, message, obj, data, total_messages, received, calls,
               outBuf, outTopic, dlqBuf, dlqTopic, cleanup, stopCause >>

----------------------------------------------------------------------------
(* Bounds *)

\* Longest schema handed to a directly called function.
MaxFields == 2

\* Number of records the input topic delivers in one run.
MaxRecords == 2

----------------------------------------------------------------------------
(* JSON values and dicts *)

Str(x)    == [t |-> "str",  s |-> x,  n |-> 0]
IntV(k)   == [t |-> "int",  s |-> "", n |-> k]
BigInt(x) == [t |-> "int",  s |-> x,  n |-> 0]
BoolV(b)  == [t |-> "bool", s |-> "", n |-> IF b THEN 1 ELSE 0]
Null      == [t |-> "null", s |-> "", n |-> 0]

\* 2^40: a long that is no int, and a time stamp beyond year 9999.
Two40 == BigInt("1099511627776")

EmptyDict == [k \in {} |-> Null]

\* data[k] = v on a dict
SetItem(d, k, v) == [x \in (DOMAIN d) \cup {k} |-> IF x = k THEN v ELSE d[x]]

\* A deserialized payload: a JSON object, or a JSON number (no mapping).
Dict(d)  == [kind |-> "dict", d |-> d]
Scalar   == [kind |-> "scalar", d |-> EmptyDict]
NoObject == [kind |-> "none", d |-> EmptyDict]

Field(name, type) == [name |-> name, type |-> type]


----------------------------------------------------------------------------
(* handle_missing_fields *)

\* The default the loop body inserts for a declared type, if it has one.
HasDefault(type) == type \in {"string", "int", "long", "boolean"}

\* Mutant: a missing boolean is filled with 0, like the integer types.
DefaultValue_BooleanAsZero(type) ==
    IF type = "string" THEN Str("") ELSE IntV(0)

DefaultValue(type) ==
    IF type = "string" THEN Str("")
    ELSE IF type = "int" \/ type = "long" THEN IntV(0)
    ELSE BoolV(FALSE)

LacksDeclared(d, fields) == \E i \in 1..Len(fields) : fields[i].name \notin DOMAIN d

\* One pass of `for field in schema["fields"]`, from field i on.
RECURSIVE ForEachField(_, _, _, _)
ForEachField(d, missing_fields, fields, i) ==
    IF i > Len(fields) THEN [data |-> d, missing_fields |-> missing_fields]
    ELSE LET field == fields[i] IN
         IF field.name \notin DOMAIN d
         THEN ForEachField(
                  IF HasDefault(field.type)
                  THEN SetItem(d, field.name, DefaultValue(field.type))
                  ELSE d,
                  Append(missing_fields, field.name), fields, i + 1)
         ELSE ForEachField(d, missing_fields, fields, i + 1)

\* Mutant: best-effort fill, None only when a missing field got no default.
HandleMissingFields_ReturnsFilled(d, fields) ==
    LET r == ForEachField(d, << >>, fields, 1) IN
    [ret |-> IF LacksDeclared(r.data, fields) THEN "None" ELSE "data",
     data |-> r.data,
     missing_fields |-> r.missing_fields]

\* Mutant: the dict returned is cut down to the declared fields.
HandleMissingFields_KeepsDeclaredOnly(d, fields) ==
    LET r == ForEachField(d, << >>, fields, 1) IN
    [ret |-> IF r.missing_fields # << >> THEN "None" ELSE "data",
     data |-> [k \in {fields[i].name : i \in 1..Len(fields)} \cap DOMAIN r.data
                  |-> r.data[k]],
     missing_fields |-> r.missing_fields]

\* handle_missing_fields(data, schema) on a dict: what it returns ("None" or
\* the dict itself) and the dict as the call leaves it.
HandleMissingFields(d, fields) ==
    LET r == ForEachField(d, << >>, fields, 1) IN
    [ret |-> IF r.missing_fields # << >> THEN "None" ELSE "data",
     data |-> r.data,
     missing_fields |-> r.missing_fields]

\* `field["name"] not in data` raises TypeError when data is a number.
HandleMissingFieldsRaises(value, fields) ==
    value.kind # "dict" /\ Len(fields) > 0

----------------------------------------------------------------------------
(* validate_data *)

\* fastavro's validators of the primitive types: bool is no int, an int is
\* 32 bits wide, a long 64 bits, and a double takes any number but a bool.
ValidatePrimitive(v, type) ==
    CASE type = "string"  -> v.t = "str"
      [] type = "int"     -> v.t = "int" /\ v.s = ""
      [] type = "long"    -> v.t = "int"
      [] type = "boolean" -> v.t = "bool"
      [] type = "double"  -> v.t = "int"
      [] OTHER            -> FALSE

\* fastavro.validate(data, schema) of a record schema: "True", or it raises
\* ValidationError.  A datum that is no mapping fails; each declared field is
\* looked up with datum.get, an absent one fails; other keys are not looked at.
FastavroValidate(value, fields) ==
    IF /\ value.kind = "dict"
       /\ \A i \in 1..Len(fields) :
              /\ fields[i].name \in DOMAIN value.d
              /\ ValidatePrimitive(value.d[fields[i].name], fields[i].type)
    THEN "True"
    ELSE "ValidationError"

\* Mutant: no try/except around validate, its exception leaves the function.
ValidateData_NoTry(value, fields) ==
    IF FastavroValidate(value, fields) = "True"
    THEN [value |-> TRUE, raises |-> FALSE]
    ELSE [value |-> FALSE, raises |-> TRUE]

\* validate_data: True when validate returns, False when it raises; nothing
\* leaves the function.
ValidateData(value, fields) ==
    IF FastavroValidate(value, fields) = "True"
    THEN [value |-> TRUE, raises |-> FALSE]
    ELSE [value |-> FALSE, raises |-> FALSE]

----------------------------------------------------------------------------
(* process_data *)

SENTINEL == "1970-01-01 00:00:00"

Pad2(k) == IF k < 10 THEN "0" \o ToString(k) ELSE ToString(k)

\* The civil date of a day number (days since 1970-01-01), "%Y-%m-%d".
CivilDate(days) ==
    LET z   == days + 719468
        era == z \div 146097
        doe == z - era * 146097
        yoe == (doe - doe \div 1460 + doe \div 36524 - doe \div 146096) \div 365
        doy == doe - (365 * yoe + yoe \div 4 - yoe \div 100)
        mp  == (5 * doy + 2) \div 153
        dd  == doy - (153 * mp + 2) \div 5 + 1
        mm  == IF mp < 10 THEN mp + 3 ELSE mp - 9
        yy  == yoe + era * 400 + (IF mm <= 2 THEN 1 ELSE 0)
    IN ToString(yy) \o "-" \o Pad2(mm) \o "-" \o Pad2(dd)

\* datetime.fromtimestamp(secs).strftime("%Y-%m-%d %H:%M:%S") in zone z.
Strftime(secs, z) ==
    LET local == secs + z * 3600
        rem   == local % 86400
    IN CivilDate(local \div 86400) \o " " \o Pad2(rem \div 3600) \o ":"
       \o Pad2((rem % 3600) \div 60) \o ":" \o Pad2(rem % 60)

\* isinstance(timestamp, int): bool is a subclass of int.
IsInstanceInt(v) == v.t = "int" \/ v.t = "bool"

\* datetime.fromtimestamp raises for a time stamp beyond year 9999.
FromTimestampRaises(v) == v.s # ""

\* Mutant: the result is a new dict that holds the time stamp alone.
ProcessData_TimestampOnly(d, z) ==
    LET timestamp == IF "timestamp" \in DOMAIN d THEN d["timestamp"] ELSE Null IN
    IF IsInstanceInt(timestamp) /\ ~FromTimestampRaises(timestamp)
    THEN SetItem(EmptyDict, "timestamp", Str(Strftime(timestamp.n, z)))
    ELSE SetItem(EmptyDict, "timestamp", Str(SENTINEL))

\* Mutant: a dict without a time stamp is returned as it is.
ProcessData_OnlyIfPresent(d, z) ==
    IF "timestamp" \notin DOMAIN d THEN d
    ELSE IF IsInstanceInt(d["timestamp"]) /\ ~FromTimestampRaises(d["timestamp"])
         THEN SetItem(d, "timestamp", Str(Strftime(d["timestamp"].n, z)))
         ELSE SetItem(d, "timestamp", Str(SENTINEL))

\* process_data(data) on a dict: the dict as the call leaves and returns it.
ProcessData(d, z) ==
    LET timestamp == IF "timestamp" \in DOMAIN d THEN d["timestamp"] ELSE Null IN
    IF IsInstanceInt(timestamp)
    THEN IF FromTimestampRaises(timestamp)
         THEN SetItem(d, "timestamp", Str(SENTINEL))
         ELSE SetItem(d, "timestamp", Str(Strftime(timestamp.n, z)))
    ELSE SetItem(d, "timestamp", Str(SENTINEL))

\* process_data on the dict d gets as far as formatting a local time: the
\* only place where the time zone of the process makes a difference.
ReadsZone(d) ==
    /\ "timestamp" \in DOMAIN d
    /\ IsInstanceInt(d["timestamp"])
    /\ ~FromTimestampRaises(d["timestamp"])

\* data.get and the item assignment both raise when data is no dict, the
\* second one inside the except clause, so the exception leaves process_data.
ProcessDataRaises(value) == value.kind # "dict"

----------------------------------------------------------------------------
(* The functions called directly, as the unit tests call them *)

Names  == {"user_id", "timestamp", "flag"}
Types  == {"string", "int", "long", "boolean", "double"}
Values == {Str("123"), IntV(1742331926), BoolV(TRUE), Two40, Null}

TZOffsets == {-7, 0}

NoZone  == [known |-> FALSE, hours |-> 0]
Zone(z) == [known |-> TRUE, hours |-> z]

\* The zones a conversion can find: the one an earlier conversion of the same
\* process found, any before that.
LocalZones == IF tz.known THEN {tz.hours} ELSE TZOffsets

UnitRecords == UNION {[S -> Values] : S \in SUBSET Names}

FieldDescrs == {Field(nm, ty) : nm \in Names, ty \in Types}

UnitSchemas ==
    {s \in UNION {[1..k -> FieldDescrs] : k \in 0..MaxFields} :
        \A i, j \in 1..Len(s) : i # j => s[i].name # s[j].name}

NoRet == [kind |-> "none", b |-> FALSE, raises |-> FALSE, d |-> EmptyDict,
          missing |-> << >>]

CallHandleMissingFields ==
    /\ mode = "unit" /\ fn = "none"
    /\ \E d \in UnitRecords, s \in UnitSchemas :
          LET r == HandleMissingFields(d, s) IN
          /\ argData' = d
          /\ argSchema' = s
          /\ ret' = [kind |-> r.ret, b |-> FALSE, raises |-> FALSE, d |-> r.data,
                     missing |-> r.missing_fields]
    /\ fn' = "handle_missing_fields"
    /\ UNCHANGED << mode, tz, mainVars >>

CallValidateData ==
    /\ mode = "unit" /\ fn = "none"
    /\ \E d \in UnitRecords, s \in UnitSchemas :
          LET r == ValidateData(Dict(d), s) IN
          /\ argData' = d
          /\ argSchema' = s
          /\ ret' = [kind |-> "bool", b |-> r.value, raises |-> r.raises, d |-> d,
                     missing |-> << >>]
    /\ fn' = "validate_data"
    /\ UNCHANGED << mode, tz, mainVars >>

CallProcessData ==
    /\ mode = "unit" /\ fn = "none"
    /\ \E d \in UnitRecords :
          /\ argData' = d
          /\ argSchema' = << >>
          /\ \E z \in LocalZones :
                /\ ret' = [kind |-> "data", b |-> FALSE, raises |-> FALSE,
                           d |-> ProcessData(d, z), missing |-> << >>]
                /\ tz' = IF ReadsZone(d) THEN Zone(z) ELSE tz
    /\ fn' = "process_data"
    /\ UNCHANGED << mode, mainVars >>

----------------------------------------------------------------------------
(* process_messages: inputs *)

\* Schemas a run may be given: the tests' shape, one with a boolean field and
\* no time stamp, one whose second field has no default rule, the empty one.
Schemas ==
    { << Field("user_id", "string"), Field("timestamp", "long") >>,
      << Field("user_id", "string"), Field("flag", "boolean") >>,
      << Field("user_id", "string"), Field("timestamp", "double") >>,
      << >> }

\* What the configured deserializer makes of the payloads on the input topic.
InputValues ==
    { Dict(("user_id" :> Str("123")) @@ ("timestamp" :> IntV(1742331926))),
      Dict("user_id" :> Str("123")),
      Dict(("user_id" :> Str("123")) @@ ("timestamp" :> Str("123"))),
      Dict(("user_id" :> Str("123")) @@ ("flag" :> BoolV(TRUE))),
      Dict(("user_id" :> Str("123")) @@ ("timestamp" :> BoolV(TRUE))),
      Dict(("user_id" :> Str("123")) @@ ("timestamp" :> Two40)),
      Scalar }

\* A payload that is no JSON: message.value() has nothing to return.
Undecodable == [kind |-> "undecodable", d |-> EmptyDict]

NoMessage == [kind |-> "None", off |-> 0, raises |-> FALSE]

LoopPcs == {"Polling", "Received", "Reconciling", "Validating", "Transforming",
            "Routing"}

FinallyPcs == {"Closing", "FlushingProducer", "FlushingDlq"}

\* How a produce-then-flush pair can end.
SendOutcomes == {"ok", "produce_raises", "flush_raises"}

----------------------------------------------------------------------------
(* The two send functions *)

OUTPUT_TOPIC == "user-login-processed"
DLQ_TOPIC    == "user-login-dlq"

\* What one call of a send function did: the topics it called produce with,
\* the producers it called flush on, and which of its calls raised ("value":
\* message.value() or json.dumps, before anything reached the producer).
SendRecord(op, off, error, topic, producer, outcome) ==
    [op |-> op, off |-> off, reason |-> error,
     produce |-> IF outcome = "value_raises" THEN << >> ELSE << topic >>,
     flush |-> IF outcome \in {"ok", "flush_raises"} THEN << producer >> ELSE << >>,
     raised |-> CASE outcome = "ok" -> ""
                  [] outcome = "flush_raises" -> "flush"
                  [] outcome = "produce_raises" -> "produce"
                  [] OTHER -> "value"]

\* Mutant: the flush after produce is missing.
SendToDlq_NoFlush(msg, value, error, outcome) ==
    /\ calls' = Append(calls, [SendRecord("send_to_dlq", msg.off, error, DLQ_TOPIC,
                                          "dlq_producer", "produce_raises")
                                  EXCEPT !.raised = ""])
    /\ dlqBuf' = Append(dlqBuf, [off |-> msg.off, value |-> value,
                                 topic |-> DLQ_TOPIC])
    /\ UNCHANGED << dlqTopic, outBuf, outTopic >>

\* Mutant: a failed send to the output topic is retried on the dead-letter
\* topic.
ProduceProcessedData_FallsBackToDlq(value, off, outcome) ==
    /\ calls' = Append(calls, SendRecord("produce_processed_data", off, "",
                                         OUTPUT_TOPIC, "producer", outcome))
    /\ LET e == [off |-> off, value |-> value, topic |-> OUTPUT_TOPIC] IN
       IF outcome = "ok"
       THEN /\ outTopic' = outTopic \o Append(outBuf, e)
            /\ outBuf' = << >>
            /\ UNCHANGED << dlqBuf, dlqTopic >>
       ELSE /\ dlqTopic' = dlqTopic \o Append(dlqBuf, [e EXCEPT !.topic = DLQ_TOPIC])
            /\ dlqBuf' = << >>
            /\ UNCHANGED << outBuf, outTopic >>

\* produce_processed_data(producer, data) for the record at offset off.
\* The exception of a failed produce or flush is logged and swallowed; a
\* message produced before a failed flush stays in the producer's queue.
ProduceProcessedData(value, off, outcome) ==
    /\ calls' = Append(calls, SendRecord("produce_processed_data", off, "",
                                         OUTPUT_TOPIC, "producer", outcome))
    /\ LET e == [off |-> off, value |-> value, topic |-> OUTPUT_TOPIC] IN
       CASE outcome = "ok" ->
              /\ outTopic' = outTopic \o Append(outBuf, e)
              /\ outBuf' = << >>
         [] outcome = "flush_raises" ->
              /\ outBuf' = Append(outBuf, e)
              /\ UNCHANGED outTopic
         [] OTHER -> UNCHANGED << outBuf, outTopic >>
    /\ UNCHANGED << dlqBuf, dlqTopic >>

\* send_to_dlq(dlq_producer, message, error): value is what message.value()
\* returns at the time of the call.  When message.value() raises, it raises
\* inside the try and nothing is produced.
SendToDlq(msg, value, error, outcome) ==
    /\ calls' = Append(calls, SendRecord("send_to_dlq", msg.off, error, DLQ_TOPIC,
                                         "dlq_producer",
                                         IF msg.raises THEN "value_raises"
                                         ELSE outcome))
    /\ LET e == [off |-> msg.off, value |-> value, topic |-> DLQ_TOPIC] IN
       CASE msg.raises -> UNCHANGED << dlqBuf, dlqTopic >>
         [] ~msg.raises /\ outcome = "ok" ->
              /\ dlqTopic' = dlqTopic \o Append(dlqBuf, e)
              /\ dlqBuf' = << >>
         [] ~msg.raises /\ outcome = "flush_raises" ->
              /\ dlqBuf' = Append(dlqBuf, e)
              /\ UNCHANGED dlqTopic
         [] OTHER -> UNCHANGED << dlqBuf, dlqTopic >>
    /\ UNCHANGED << outBuf, outTopic >>

----------------------------------------------------------------------------
(* main: startup *)

\* main with a fetch_schema that returns: the consumer and the producers are
\* built, the consumer subscribes, process_messages is entered.
Startup ==
    /\ mode = "main" /\ pc = "Starting"
    /\ \E s \in Schemas : schema' = s
    /\ subscribed' = TRUE
    /\ pc' = "Polling"
    /\ UNCHANGED << mode, tz, unitVars, message, obj, data, total_messages, received,
                    calls, outBuf, outTopic, dlqBuf, dlqTopic, cleanup, stopCause >>

\* Mutant: fetch_schema swallows its exception and main goes on without a
\* schema.
FetchSchemaRaises_Swallowed ==
    /\ mode = "main" /\ pc = "Starting"
    /\ stopCause' = "schema_fetch_failed"
    /\ subscribed' = TRUE
    /\ pc' = "Polling"
    /\ UNCHANGED << mode, tz, unitVars, schema, message, obj, data, total_messages,
                    received, calls, outBuf, outTopic, dlqBuf, dlqTopic, cleanup >>

\* fetch_schema logs the failure and re-raises; main has no handler, so the
\* exception ends main at its first statement.
FetchSchemaRaises ==
    /\ mode = "main" /\ pc = "Starting"
    /\ stopCause' = "schema_fetch_failed"
    /\ pc' = "Aborted"
    /\ UNCHANGED << mode, tz, unitVars, startVars, message, obj, data, total_messages,
                    received, calls, outBuf, outTopic, dlqBuf, dlqTopic, cleanup >>

----------------------------------------------------------------------------
(* process_messages: one action per step of the loop *)

\* consumer.poll(1.0) times out: message is None, continue.
PollTimeout ==
    /\ mode = "main" /\ pc = "Polling"
    /\ message' = NoMessage
    /\ obj' = NoObject
    /\ UNCHANGED << mode, tz, unitVars, startVars, pc, data, total_messages, received,
                    calls, outBuf, outTopic, dlqBuf, dlqTopic, cleanup, stopCause >>

\* Mutant: an error other than end of partition breaks out of the loop.
PollError_Breaks ==
    /\ mode = "main" /\ pc = "Polling"
    /\ \E code \in {"_PARTITION_EOF", "error"} :
          /\ message' = [kind |-> code, off |-> 0, raises |-> FALSE]
          /\ pc' = IF code = "error" THEN "Closing" ELSE pc
          /\ stopCause' = IF code = "error" THEN "poll_exception" ELSE stopCause
    /\ obj' = NoObject
    /\ UNCHANGED << mode, tz, unitVars, startVars, data, total_messages, received,
                    calls, outBuf, outTopic, dlqBuf, dlqTopic, cleanup >>

\* The poll returns an error notification: end of partition or another
\* error code, logged either way, continue.
PollError ==
    /\ mode = "main" /\ pc = "Polling"
    /\ \E code \in {"_PARTITION_EOF", "error"} :
          message' = [kind |-> code, off |-> 0, raises |-> FALSE]
    /\ obj' = NoObject
    /\ UNCHANGED << mode, tz, unitVars, startVars, pc, data, total_messages, received,
                    calls, outBuf, outTopic, dlqBuf, dlqTopic, cleanup, stopCause >>

\* The poll returns a record whose payload was deserialized.
PollRecord ==
    /\ mode = "main" /\ pc = "Polling"
    /\ Len(received) < MaxRecords
    /\ \E v \in InputValues :
          /\ obj' = v
          /\ received' = Append(received, v)
    /\ message' = [kind |-> "record", off |-> Len(received) + 1, raises |-> FALSE]
    /\ pc' = "Received"
    /\ UNCHANGED << mode, tz, unitVars, startVars, data, total_messages, calls,
                    outBuf, outTopic, dlqBuf, dlqTopic, cleanup, stopCause >>

\* The poll returns a record whose message.value() raises.
PollUndecodable ==
    /\ mode = "main" /\ pc = "Polling"
    /\ Len(received) < MaxRecords
    /\ obj' = NoObject
    /\ received' = Append(received, Undecodable)
    /\ message' = [kind |-> "record", off |-> Len(received) + 1, raises |-> TRUE]
    /\ pc' = "Received"
    /\ UNCHANGED << mode, tz, unitVars, startVars, data, total_messages, calls,
                    outBuf, outTopic, dlqBuf, dlqTopic, cleanup, stopCause >>

\* consumer.poll raises (the consumer runs the configured deserializer inside
\* poll, and reports transport errors by raising): except Exception, finally.
\* The finally block reads none of the loop's locals, which are dropped here.
PollRaises ==
    /\ mode = "main" /\ pc = "Polling"
    /\ pc' = "Closing"
    /\ stopCause' = "poll_exception"
    /\ message' = NoMessage /\ obj' = NoObject /\ data' = "unset"
    /\ UNCHANGED << mode, tz, unitVars, startVars, total_messages, received, calls,
                    outBuf, outTopic, dlqBuf, dlqTopic, cleanup >>

\* KeyboardInterrupt anywhere inside the try block: no handler below the
\* outer one catches it.
Interrupt ==
    /\ mode = "main" /\ pc \in LoopPcs
    /\ pc' = "Closing"
    /\ stopCause' = "interrupt"
    /\ message' = NoMessage /\ obj' = NoObject /\ data' = "unset"
    /\ UNCHANGED << mode, tz, unitVars, startVars, total_messages, received, calls,
                    outBuf, outTopic, dlqBuf, dlqTopic, cleanup >>

\* data = message.value() in its try block.
Deserialize ==
    /\ mode = "main" /\ pc = "Received"
    /\ IF message.raises
       THEN /\ \E o \in SendOutcomes :
                  SendToDlq(message, obj, "Deserialization error", o)
            /\ pc' = "Polling"
            /\ UNCHANGED data
       ELSE /\ data' = "ref"
            /\ pc' = "Reconciling"
            /\ UNCHANGED << calls, outBuf, outTopic, dlqBuf, dlqTopic >>
    /\ UNCHANGED << mode, tz, unitVars, startVars, message, obj, total_messages,
                    received, cleanup, stopCause >>

\* Mutant: the None result is not acted on, the filled record goes on.
Reconcile_IgnoresNone ==
    /\ mode = "main" /\ pc = "Reconciling"
    /\ IF HandleMissingFieldsRaises(obj, schema)
       THEN /\ pc' = "Closing"
            /\ stopCause' = "step_exception"
            /\ message' = NoMessage /\ obj' = NoObject /\ data' = "unset"
       ELSE /\ obj' = IF obj.kind = "dict"
                      THEN Dict(HandleMissingFields(obj.d, schema).data) ELSE obj
            /\ data' = "ref"
            /\ pc' = "Validating"
            /\ UNCHANGED << message, stopCause >>
    /\ UNCHANGED << mode, tz, unitVars, startVars, total_messages, received,
                    cleanup, calls, outBuf, outTopic, dlqBuf, dlqTopic >>

\* data = handle_missing_fields(data, schema), then the `data is None` branch.
\* The call works on the object message.value() returns, in place.  When it
\* raises, except Exception ends the loop (its locals are dropped, as above).
Reconcile ==
    /\ mode = "main" /\ pc = "Reconciling"
    /\ IF HandleMissingFieldsRaises(obj, schema)
       THEN /\ pc' = "Closing"
            /\ stopCause' = "step_exception"
            /\ message' = NoMessage /\ obj' = NoObject /\ data' = "unset"
            /\ UNCHANGED << calls, outBuf, outTopic, dlqBuf, dlqTopic >>
       ELSE LET r == HandleMissingFields(obj.d, schema)
                after == IF obj.kind = "dict" THEN Dict(r.data) ELSE obj
            IN /\ obj' = after
               /\ UNCHANGED << message, stopCause >>
               /\ IF r.ret = "None"
                  THEN /\ data' = "None"
                       /\ \E o \in SendOutcomes :
                             SendToDlq(message, after, "Missing required fields", o)
                       /\ pc' = "Polling"
                  ELSE /\ data' = "ref"
                       /\ pc' = "Validating"
                       /\ UNCHANGED << calls, outBuf, outTopic, dlqBuf, dlqTopic >>
    /\ UNCHANGED << mode, tz, unitVars, startVars, total_messages, received, cleanup >>

\* Mutant: the `continue` after the dead-letter send is missing.
Validate_NoContinue ==
    /\ mode = "main" /\ pc = "Validating"
    /\ IF ~ValidateData(obj, schema).value
       THEN \E o \in SendOutcomes :
                SendToDlq(message, obj, "Schema validation failed", o)
       ELSE UNCHANGED << calls, outBuf, outTopic, dlqBuf, dlqTopic >>
    /\ pc' = "Transforming"
    /\ UNCHANGED << mode, tz, unitVars, startVars, message, obj, data, total_messages,
                    received, cleanup, stopCause >>

\* if not validate_data(data, schema): send to the DLQ, continue.
Validate ==
    /\ mode = "main" /\ pc = "Validating"
    /\ IF ~ValidateData(obj, schema).value
       THEN /\ \E o \in SendOutcomes :
                  SendToDlq(message, obj, "Schema validation failed", o)
            /\ pc' = "Polling"
       ELSE /\ pc' = "Transforming"
            /\ UNCHANGED << calls, outBuf, outTopic, dlqBuf, dlqTopic >>
    /\ UNCHANGED << mode, tz, unitVars, startVars, message, obj, data, total_messages,
                    received, cleanup, stopCause >>

\* processed_data = process_data(data) in its try block; the dict is changed
\* in place.
Transform ==
    /\ mode = "main" /\ pc = "Transforming"
    /\ IF ProcessDataRaises(obj)
       THEN /\ \E o \in SendOutcomes :
                  SendToDlq(message, obj, "Processing error", o)
            /\ pc' = "Polling"
            /\ UNCHANGED << obj, tz >>
       ELSE /\ \E z \in LocalZones :
                  /\ obj' = Dict(ProcessData(obj.d, z))
                  /\ tz' = IF ReadsZone(obj.d) THEN Zone(z) ELSE tz
            /\ pc' = "Routing"
            /\ UNCHANGED << calls, outBuf, outTopic, dlqBuf, dlqTopic >>
    /\ UNCHANGED << mode, unitVars, startVars, message, data, total_messages,
                    received, cleanup, stopCause >>

\* Mutant: the count is raised only when the send went through.
Route_CountsOnSuccess ==
    /\ mode = "main" /\ pc = "Routing"
    /\ \E o \in SendOutcomes :
          /\ ProduceProcessedData(obj, message.off, o)
          /\ total_messages' = IF o = "ok" THEN total_messages + 1
                               ELSE total_messages
    /\ pc' = "Polling"
    /\ UNCHANGED << mode, tz, unitVars, startVars, message, obj, data, received,
                    cleanup, stopCause >>

\* Mutant: the count is raised after the send, unless its produce raised.
Route_CountsOnAccept ==
    /\ mode = "main" /\ pc = "Routing"
    /\ \E o \in SendOutcomes :
          /\ ProduceProcessedData(obj, message.off, o)
          /\ total_messages' = IF o = "produce_raises" THEN total_messages
                               ELSE total_messages + 1
    /\ pc' = "Polling"
    /\ UNCHANGED << mode, tz, unitVars, startVars, message, obj, data, received,
                    cleanup, stopCause >>

\* total_messages += 1, then produce_processed_data(producer, processed_data).
Route ==
    /\ mode = "main" /\ pc = "Routing"
    /\ total_messages' = total_messages + 1
    /\ \E o \in SendOutcomes : ProduceProcessedData(obj, message.off, o)
    /\ pc' = "Polling"
    /\ UNCHANGED << mode, tz, unitVars, startVars, message, obj, data, received,
                    cleanup, stopCause >>

\* Mutant: the cleanup ends after consumer.close(), the flushes are missing.
Close_WithoutFlush ==
    /\ mode = "main" /\ pc = "Closing"
    /\ cleanup' = Append(cleanup, "consumer.close")
    /\ pc' = "Stopped"
    /\ UNCHANGED << mode, tz, unitVars, startVars, message, obj, data, total_messages,
                    received, calls, outBuf, outTopic, dlqBuf, dlqTopic, stopCause >>

\* finally: consumer.close()
Close ==
    /\ mode = "main" /\ pc = "Closing"
    /\ cleanup' = Append(cleanup, "consumer.close")
    /\ pc' = "FlushingProducer"
    /\ UNCHANGED << mode, tz, unitVars, startVars, message, obj, data, total_messages,
                    received, calls, outBuf, outTopic, dlqBuf, dlqTopic, stopCause >>

\* finally: producer.flush()
FlushProducer ==
    /\ mode = "main" /\ pc = "FlushingProducer"
    /\ outTopic' = outTopic \o outBuf
    /\ outBuf' = << >>
    /\ cleanup' = Append(cleanup, "producer.flush")
    /\ pc' = "FlushingDlq"
    /\ UNCHANGED << mode, tz, unitVars, startVars, message, obj, data, total_messages,
                    received, calls, dlqBuf, dlqTopic, stopCause >>

\* finally: dlq_producer.flush(), then process_messages returns.
FlushDlq ==
    /\ mode = "main" /\ pc = "FlushingDlq"
    /\ dlqTopic' = dlqTopic \o dlqBuf
    /\ dlqBuf' = << >>
    /\ cleanup' = Append(cleanup, "dlq_producer.flush")
    /\ pc' = "Stopped"
    /\ UNCHANGED << mode, tz, unitVars, startVars, message, obj, data, total_messages,
                    received, calls, outBuf, outTopic, stopCause >>

\* A call of the finally block raises, or a second interrupt arrives in it:
\* the exception leaves process_messages, which does not return.
CleanupRaises ==
    /\ mode = "main" /\ pc \in FinallyPcs
    /\ pc' = "Propagated"
    /\ UNCHANGED << mode, tz, unitVars, startVars, message, obj, data, total_messages,
                    received, calls, outBuf, outTopic, dlqBuf, dlqTopic, cleanup,
                    stopCause >>

----------------------------------------------------------------------------
(* Specification *)

Init ==
    /\ mode \in {"unit", "main"}
    /\ tz = NoZone
    /\ fn = "none"
    /\ argSchema = << >>
    /\ argData = EmptyDict
    /\ ret = NoRet
    /\ schema = << >>
    /\ subscribed = FALSE
    /\ pc = (IF mode = "main" THEN "Starting" ELSE "NotStarted")
    /\ message = NoMessage
    /\ obj = NoObject
    /\ data = "unset"
    /\ total_messages = 0
    /\ received = << >>
    /\ calls = << >>
    /\ outBuf = << >>
    /\ outTopic = << >>
    /\ dlqBuf = << >>
    /\ dlqTopic = << >>
    /\ cleanup = << >>
    /\ stopCause = "none"

Next ==
    \/ CallHandleMissingFields
    \/ CallValidateData
    \/ CallProcessData
    \/ Startup
    \/ FetchSchemaRaises
    \/ PollTimeout
    \/ PollError
    \/ PollRecord
    \/ PollUndecodable
    \/ PollRaises
    \/ Interrupt
    \/ Deserialize
    \/ Reconcile
    \/ Validate
    \/ Transform
    \/ Route
    \/ Close
    \/ FlushProducer
    \/ FlushDlq
    \/ CleanupRaises

Spec == Init /\ [][Next]_vars

----------------------------------------------------------------------------
(* Vocabulary of the properties *)

Offsets == 1..Len(received)

Range(q) == {q[i] : i \in DOMAIN q}

\* Entries handed to a producer (queued or delivered), and delivered ones.
OutputEntries == Range(outBuf) \cup Range(outTopic)
DlqEntries    == Range(dlqBuf) \cup Range(dlqTopic)

DeliveredToOutput(off) == \E e \in Range(outTopic) : e.off = off
DeliveredToDlq(off)    == \E e \in Range(dlqTopic) : e.off = off

CallsFor(off) == {i \in DOMAIN calls : calls[i].off = off}

ForwardCalls == {i \in DOMAIN calls : calls[i].op = "produce_processed_data"}

\* The dict lacks at least one field the schema declares.
LacksField(d, fields) == \E i \in 1..Len(fields) : fields[i].name \notin DOMAIN d

\* Avro's reading of "a value compatible with the declared type".
ValueClass(v) ==
    CASE v.t = "str"  -> "string"
      [] v.t = "bool" -> "boolean"
      [] v.t = "null" -> "null"
      [] v.t = "int" /\ v.s = "" -> "32-bit integer"
      [] OTHER -> "64-bit integer"

Compatible ==
    { << "string", "string" >>, << "boolean", "boolean" >>,
      << "32-bit integer", "int" >>, << "32-bit integer", "long" >>,
      << "64-bit integer", "long" >>,
      << "32-bit integer", "double" >>, << "64-bit integer", "double" >> }

Conformant(d, fields) ==
    \A f \in Range(fields) :
        /\ f.name \in DOMAIN d
        /\ << ValueClass(d[f.name]), f.type >> \in Compatible

----------------------------------------------------------------------------
(* C1 *)

----------------------------------------------------------------------------
(* C2 *)

\* C2 as stated: every payload handed to the dead-letter producer is the
\* payload of that record as it was received, field for field.
C2_DlqPayloadIsOriginal ==
    mode = "main" =>
        \A e \in DlqEntries : e.value = received[e.off]

----------------------------------------------------------------------------
(* C3 *)

----------------------------------------------------------------------------
(* C4 *)

\* The payload is one of the claim's content errors for this schema.
ContentError(v, fields) ==
    \/ v.kind # "dict"
    \/ LacksField(v.d, fields)
    \/ ~Conformant(v.d, fields)

\* C4 as stated: no pipeline step that raises on a record takes the loop out
\* of its cycle, and every record with a content error whose cycle is over
\* has been given to the dead-letter producer.
C4_ContentErrorsNeverAbort ==
    mode = "main" =>
        /\ stopCause # "step_exception"
        /\ pc = "Polling" =>
              \A off \in Offsets :
                  ContentError(received[off], schema) =>
                      \E i \in CallsFor(off) : calls[i].op = "send_to_dlq"

----------------------------------------------------------------------------
(* C5 *)

\* C5: handle_missing_fields returns None for every dict that lacks at least
\* one declared field, whatever the field's type and whatever was filled in;
\* in the loop such a record is never handed to the output producer, and the
\* one routing call of its cycle is send_to_dlq with the reason "Missing
\* required fields".
C5_RejectsOnAnyGap ==
    /\ (mode = "unit" /\ fn = "handle_missing_fields"
          /\ LacksField(argData, argSchema)) => ret.kind = "None"
    /\ mode = "main" =>
          \A off \in Offsets :
              (received[off].kind = "dict" /\ LacksField(received[off].d, schema)) =>
                  /\ \A e \in OutputEntries : e.off # off
                  /\ \A i \in CallsFor(off) :
                        /\ calls[i].op = "send_to_dlq"
                        /\ calls[i].reason = "Missing required fields"
                  /\ pc = "Polling" => CallsFor(off) # {}
                  /\ (pc \in LoopPcs \ {"Received", "Reconciling"}
                        /\ message.off = off) => data = "None"

\* A record without its declared fields went through a whole cycle and was
\* delivered to the dead-letter topic; the output producer holds nothing.
C5_Witness ==
    /\ mode = "main" /\ pc = "Polling"
    /\ Len(received) = 1
    /\ received[1].kind = "dict" /\ LacksField(received[1].d, schema)
    /\ data = "None"
    /\ DeliveredToDlq(1)
    /\ OutputEntries = {}

----------------------------------------------------------------------------
(* C6 *)

\* C6: for every dict that has every declared field, with or without other
\* keys, handle_missing_fields returns the dict, with the same keys and the
\* same values.
C6_NoOpOnCompleteRecords ==
    (mode = "unit" /\ fn = "handle_missing_fields"
       /\ ~LacksField(argData, argSchema)) =>
        /\ ret.kind = "data"
        /\ ret.d = argData

\* A complete dict with a key the schema does not declare was reconciled
\* against a schema of two fields.
C6_Witness ==
    /\ mode = "unit" /\ fn = "handle_missing_fields"
    /\ Len(argSchema) >= 2
    /\ ~LacksField(argData, argSchema)
    /\ \E k \in DOMAIN argData : \A f \in Range(argSchema) : f.name # k
    /\ ret.kind = "data"

----------------------------------------------------------------------------
(* C7 *)

\* C7: validate_data never raises, and it returns True exactly for the dicts
\* in which every declared field is present with a value compatible with its
\* declared type; keys the schema does not declare make no difference.
C7_AcceptsExactlyConformant ==
    (mode = "unit" /\ fn = "validate_data") =>
        /\ ~ret.raises
        /\ ret.b <=> Conformant(argData, argSchema)
        /\ LacksField(argData, argSchema) => ~ret.b

\* Every declared field is present, one of them with a value of the wrong
\* type, and there is an undeclared key: validate_data returned False.
C7_Witness ==
    /\ mode = "unit" /\ fn = "validate_data"
    /\ Len(argSchema) >= 2
    /\ ~LacksField(argData, argSchema)
    /\ \E k \in DOMAIN argData : \A f \in Range(argSchema) : f.name # k
    /\ ~ret.b /\ ~ret.raises

----------------------------------------------------------------------------
(* C8 *)

\* C8 as stated: process_data leaves in `timestamp` the formatted local time
\* when the value was an integer that converts, and the sentinel in every
\* other case: the key absent, a string, a boolean, null, or a conversion
\* that raises.
C8_TimestampTransform ==
    (mode = "unit" /\ fn = "process_data") =>
        LET before == IF "timestamp" \in DOMAIN argData
                      THEN argData["timestamp"] ELSE Null
        IN /\ "timestamp" \in DOMAIN ret.d
           /\ ret.d["timestamp"] =
                 IF before.t = "int" /\ before.s = ""
                 THEN Str(Strftime(before.n, tz.hours))
                 ELSE Str(SENTINEL)

----------------------------------------------------------------------------
(* C9 *)

\* C9: every record handed to the output producer, and the record of a cycle
\* that is past validation, was received as a dict with every declared field
\* and schema-conformant values, and still has every declared field when it
\* is forwarded; for a record that lacks a field or does not conform no
\* produce_processed_data call is ever made, and once its cycle is over a
\* send_to_dlq call has been.
C9_RouterPrecondition ==
    mode = "main" =>
        /\ \A e \in OutputEntries :
              /\ received[e.off].kind = "dict"
              /\ Conformant(received[e.off].d, schema)
              /\ e.value.kind = "dict"
              /\ ~LacksField(e.value.d, schema)
        /\ pc \in {"Transforming", "Routing"} =>
              /\ received[message.off].kind = "dict"
              /\ Conformant(received[message.off].d, schema)
              /\ data = "ref"
        /\ \A off \in Offsets :
              ContentError(received[off], schema) =>
                  /\ \A i \in CallsFor(off) : calls[i].op = "send_to_dlq"
                  /\ pc = "Polling" => CallsFor(off) # {}

\* The loop is about to forward a conformant record while an earlier record,
\* which did not conform, sits in the dead-letter topic.
C9_Witness ==
    /\ mode = "main" /\ pc = "Routing"
    /\ Len(received) = 2
    /\ ContentError(received[1], schema)
    /\ DeliveredToDlq(1)
    /\ Conformant(received[2].d, schema)
    /\ Len(schema) >= 2

----------------------------------------------------------------------------
(* C10 *)

\* C10: process_messages returns only after consumer.close(), producer.flush()
\* and dlq_producer.flush() have run, in that order and once each, whichever
\* handler left the loop; at that point neither producer holds an unflushed
\* message.
C10_OrderlyShutdown ==
    mode = "main" =>
        /\ pc = "Stopped" =>
              /\ cleanup = << "consumer.close", "producer.flush",
                              "dlq_producer.flush" >>
              /\ outBuf = << >> /\ dlqBuf = << >>
              /\ stopCause \in {"interrupt", "poll_exception", "step_exception"}
        /\ pc \in LoopPcs => (cleanup = << >> /\ stopCause = "none")

\* The loop was left by an exception of a pipeline step and process_messages
\* has returned.
C10_Witness ==
    /\ mode = "main" /\ pc = "Stopped"
    /\ stopCause = "step_exception"
    /\ Len(received) = 2
    /\ Len(outTopic) = 1

----------------------------------------------------------------------------
(* C11 *)

OwnTopic(op)    == IF op = "send_to_dlq" THEN DLQ_TOPIC ELSE OUTPUT_TOPIC
OwnProducer(op) == IF op = "send_to_dlq" THEN "dlq_producer" ELSE "producer"

\* C11 as stated, for the records that are JSON objects: every call of a send
\* function makes exactly one produce on its own topic and then exactly one
\* flush, and whenever the loop is in Polling neither producer holds an
\* unflushed message.
C11_OneProduceOneFlush ==
    mode = "main" =>
        /\ \A i \in DOMAIN calls :
              received[calls[i].off].kind = "dict" =>
                  /\ calls[i].produce = << OwnTopic(calls[i].op) >>
                  /\ calls[i].flush = << OwnProducer(calls[i].op) >>
        /\ pc = "Polling" => (outBuf = << >> /\ dlqBuf = << >>)

\* C11 amended: a call of a send function makes at most one produce, on its
\* own topic, and then one flush of its own producer unless the produce (or
\* message.value() before it) raised; it touches nothing of the other
\* producer.  A call in which nothing raised leaves its record delivered, and
\* a producer holds an unflushed message only after a flush of it raised.
C11_OwnChannelThenFlush ==
    mode = "main" =>
        /\ \A i \in DOMAIN calls :
              LET c == calls[i] IN
              /\ c.produce = IF c.raised = "value" THEN << >>
                             ELSE << OwnTopic(c.op) >>
              /\ c.flush = IF c.raised \in {"", "flush"}
                           THEN << OwnProducer(c.op) >> ELSE << >>
              /\ c.raised = "" =>
                    IF c.op = "send_to_dlq" THEN DeliveredToDlq(c.off)
                    ELSE DeliveredToOutput(c.off)
        /\ \A e \in OutputEntries : e.topic = OUTPUT_TOPIC
        /\ \A e \in DlqEntries : e.topic = DLQ_TOPIC
        /\ outBuf # << >> =>
              \E i \in DOMAIN calls : /\ calls[i].op = "produce_processed_data"
                                      /\ calls[i].raised = "flush"
        /\ dlqBuf # << >> =>
              \E i \in DOMAIN calls : /\ calls[i].op = "send_to_dlq"
                                      /\ calls[i].raised = "flush"

\* One record went out through each send function, each with one produce on
\* its own topic and one flush, and nothing is left in a queue.
C11_Witness ==
    /\ mode = "main" /\ pc = "Polling"
    /\ Len(calls) = 2
    /\ calls[1].op = "send_to_dlq" /\ calls[1].raised = ""
    /\ calls[2].op = "produce_processed_data" /\ calls[2].raised = ""
    /\ DeliveredToDlq(1) /\ DeliveredToOutput(2)
    /\ outBuf = << >> /\ dlqBuf = << >>

----------------------------------------------------------------------------
(* C12 *)

FailedSends == { i \in DOMAIN calls : calls[i].raised # "" }

\* C12: a failed send is dropped and the loop goes on.  The record of a send
\* call in which something raised gets no second call (no retry), has no
\* entry in the other channel (no re-routing), and the exception does not
\* leave the send function: while that record is still the current message
\* the loop is in Polling, and the loop has not been stopped by a step's
\* exception in that cycle.
C12_DropAndContinue ==
    mode = "main" =>
        \A i \in FailedSends :
            LET c == calls[i] IN
            /\ \A j \in DOMAIN calls : calls[j].off = c.off => j = i
            /\ c.op = "produce_processed_data" =>
                  \A e \in DlqEntries : e.off # c.off
            /\ c.op = "send_to_dlq" =>
                  \A e \in OutputEntries : e.off # c.off
            /\ (message.kind = "record" /\ message.off = c.off) => pc = "Polling"
            /\ (i = Len(calls) /\ Len(received) = c.off) =>
                  stopCause # "step_exception"

\* The forward of the first record failed in produce; the loop went on and
\* delivered the second record.
C12_Witness ==
    /\ mode = "main" /\ pc = "Polling"
    /\ Len(calls) = 2
    /\ calls[1].op = "produce_processed_data" /\ calls[1].raised = "produce"
    /\ ~DeliveredToOutput(1) /\ ~DeliveredToDlq(1)
    /\ calls[2].op = "produce_processed_data" /\ DeliveredToOutput(2)
    /\ message.off = 2

----------------------------------------------------------------------------
(* C13 *)

\* C13: a failed schema fetch at startup is fatal.  main is aborted before
\* the loop: no consumer was subscribed or polled, nothing was handed to
\* either producer, nothing was counted, and the loop's cleanup never runs
\* because the loop was never entered.
C13_SchemaFetchFailureIsFatal ==
    stopCause = "schema_fetch_failed" =>
        /\ pc = "Aborted"
        /\ ~subscribed
        /\ message = NoMessage /\ received = << >>
        /\ calls = << >>
        /\ outBuf = << >> /\ outTopic = << >>
        /\ dlqBuf = << >> /\ dlqTopic = << >>
        /\ total_messages = 0
        /\ cleanup = << >>

\* The schema fetch failed: main is over, without a schema.
C13_Witness ==
    /\ mode = "main"
    /\ stopCause = "schema_fetch_failed"
    /\ pc = "Aborted"
    /\ schema = << >>

----------------------------------------------------------------------------
(* C14 *)

\* The dead-letter reason of the first stage that fails on the payload v, in
\* the order deserialize, reconcile, validate, transform; "" when none fails.
FirstFailure(v, fields) ==
    CASE v.kind = "undecodable" -> "Deserialization error"
      [] v.kind # "undecodable" /\ HandleMissingFieldsRaises(v, fields) ->
            "Missing required fields"
      [] v.kind = "dict" /\ LacksField(v.d, fields) -> "Missing required fields"
      [] OTHER -> IF ~ValidateData(v, fields).value THEN "Schema validation failed"
                  ELSE IF ProcessDataRaises(v) THEN "Processing error"
                  ELSE ""

\* The cycle of the record at offset off is over.
CycleOver(off) ==
    \/ off < Len(received)
    \/ pc = "Polling"
    \/ stopCause = "step_exception"

\* C14 as stated: the stages run in the order deserialize, reconcile,
\* validate, transform, route; a stage is reached only by a record that
\* passed the stages before it; a record whose cycle is over was dead-lettered
\* with the reason of the first stage that failed on it and nothing else was
\* done with it, or it passed all four stages and was forwarded.
C14_FirstFailureDecides ==
    mode = "main" =>
        /\ (pc \in {"Reconciling", "Validating", "Transforming", "Routing"}) =>
              /\ received[message.off].kind # "undecodable"
              /\ CallsFor(message.off) = {}
        /\ (pc \in {"Validating", "Transforming", "Routing"}) =>
              FirstFailure(received[message.off], schema)
                  \notin {"Deserialization error", "Missing required fields"}
        /\ (pc \in {"Transforming", "Routing"}) =>
              FirstFailure(received[message.off], schema)
                  \in {"Processing error", ""}
        /\ pc = "Routing" => FirstFailure(received[message.off], schema) = ""
        /\ \A off \in Offsets :
              CycleOver(off) =>
                  \E i \in DOMAIN calls :
                      /\ CallsFor(off) = {i}
                      /\ calls[i].reason = FirstFailure(received[off], schema)
                      /\ calls[i].op = IF calls[i].reason = ""
                                       THEN "produce_processed_data"
                                       ELSE "send_to_dlq"

----------------------------------------------------------------------------
(* C15 *)

\* C15: a poll that returns an error notification (end of partition or any
\* other code) and a poll that times out (no message, no exception, no
\* interrupt) leave the count, both producers' queues and topics and the
\* history of send calls as they were, and the loop stays in Polling, not
\* stopped.
C15_EmptyPollsAreNoOps ==
    [][ (/\ mode = "main" /\ pc = "Polling"
         /\ \/ message'.kind \in {"_PARTITION_EOF", "error"}
            \/ message'.kind = "None" /\ stopCause' = "none")
        => (/\ pc' = "Polling"
            /\ stopCause' = stopCause
            /\ UNCHANGED << total_messages, received, calls, outBuf, outTopic,
                            dlqBuf, dlqTopic, cleanup >>) ]_vars

\* An error notification arrived after one record was forwarded: the count
\* and the output topic are as that record left them, the loop polls on.
C15_Witness ==
    /\ mode = "main" /\ pc = "Polling" /\ stopCause = "none"
    /\ message.kind = "error"
    /\ total_messages = 1
    /\ Len(outTopic) = 1 /\ dlqTopic = << >>

----------------------------------------------------------------------------
(* C16 *)

\* C16: process_data changes at most the key "timestamp".  The dict it
\* returns has the keys of its argument and "timestamp", and every other key
\* holds the value it held before the call.
C16_OnlyTimestampChanges ==
    (mode = "unit" /\ fn = "process_data") =>
        /\ DOMAIN ret.d = DOMAIN argData \cup {"timestamp"}
        /\ \A k \in DOMAIN argData \ {"timestamp"} : ret.d[k] = argData[k]

\* process_data rewrote the time stamp of a dict that has two more keys.
C16_Witness ==
    /\ mode = "unit" /\ fn = "process_data"
    /\ DOMAIN argData = {"user_id", "timestamp", "flag"}
    /\ argData["user_id"] # argData["flag"]
    /\ ret.d["timestamp"] # argData["timestamp"]

----------------------------------------------------------------------------
(* C17 *)

\* The names of the declared fields that d lacks, in schema order.
RECURSIVE AbsentInOrder(_, _, _)
AbsentInOrder(d, fields, i) ==
    IF i > Len(fields) THEN << >>
    ELSE IF fields[i].name \notin DOMAIN d
         THEN << fields[i].name >> \o AbsentInOrder(d, fields, i + 1)
         ELSE AbsentInOrder(d, fields, i + 1)

\* C17: handle_missing_fields walks the declared fields in schema order.  A
\* field the dict lacks gets "" when declared string, 0 when declared int or
\* long, false when declared boolean, and nothing for any other type; a key
\* the dict has keeps its value; no other key appears.  The insertions are
\* in the dict the caller passed whether the call returns it or None.
C17_DefaultsByType ==
    (mode = "unit" /\ fn = "handle_missing_fields") =>
        /\ \A k \in DOMAIN argData : k \in DOMAIN ret.d /\ ret.d[k] = argData[k]
        /\ \A i \in 1..Len(argSchema) :
              LET f == argSchema[i] IN
              f.name \notin DOMAIN argData =>
                  CASE f.type = "string" ->
                         f.name \in DOMAIN ret.d /\ ret.d[f.name] = Str("")
                    [] f.type \in {"int", "long"} ->
                         f.name \in DOMAIN ret.d /\ ret.d[f.name] = IntV(0)
                    [] f.type = "boolean" ->
                         f.name \in DOMAIN ret.d /\ ret.d[f.name] = BoolV(FALSE)
                    [] OTHER -> f.name \notin DOMAIN ret.d
        /\ DOMAIN ret.d \subseteq
              DOMAIN argData \cup {argSchema[i].name : i \in 1..Len(argSchema)}
        /\ ret.missing = AbsentInOrder(argData, argSchema, 1)

\* The call returned None and left a false in the caller's dict for the
\* missing boolean, nothing for the missing double.
C17_Witness ==
    /\ mode = "unit" /\ fn = "handle_missing_fields"
    /\ ret.kind = "None"
    /\ argData = SetItem(EmptyDict, "user_id", Str("123"))
    /\ argSchema = << Field("flag", "boolean"), Field("timestamp", "double") >>
    /\ ret.d = SetItem(argData, "flag", BoolV(FALSE))
    /\ ret.missing = << "flag", "timestamp" >>

----------------------------------------------------------------------------
(* C18 *)

\* The record at offset off passed reconcile, validate and transform and its
\* cycle went on to the forward step.
PassedAllStages(off) ==
    /\ CallsFor(off) # {}
    /\ FirstFailure(received[off], schema) = ""

----------------------------------------------------------------------------
(* C19 *)

\* The branch of process_data that sets the time stamp of the dict d.
ProcessDataBranch(d) ==
    LET timestamp == IF "timestamp" \in DOMAIN d THEN d["timestamp"] ELSE Null IN
    IF ~IsInstanceInt(timestamp) THEN "else"
    ELSE IF FromTimestampRaises(timestamp) THEN "except" ELSE "try"

DeclaresLongTimestamp(fields) == Field("timestamp", "long") \in Range(fields)

\* C19: every payload handed to the output producer has a "timestamp" that
\* is a string, whether or not the schema declares the field, and so has
\* every dict process_data returns.  When the schema declares timestamp as
\* long, the forwarded payload no longer conforms to the schema; its time
\* stamp was an integer when received, so process_data took the integer
\* branch, and the sentinel is there only if the conversion raised (or is
\* what the conversion itself printed).
C19_ForwardedTimestampIsString ==
    /\ (mode = "unit" /\ fn = "process_data") =>
          "timestamp" \in DOMAIN ret.d /\ ret.d["timestamp"].t = "str"
    /\ mode = "main" =>
          \A e \in OutputEntries :
              /\ e.value.kind = "dict"
              /\ "timestamp" \in DOMAIN e.value.d
              /\ e.value.d["timestamp"].t = "str"
              /\ DeclaresLongTimestamp(schema) =>
                    LET was == received[e.off].d["timestamp"] IN
                    /\ ~Conformant(e.value.d, schema)
                    /\ Conformant(received[e.off].d, schema)
                    /\ was.t = "int"
                    /\ ProcessDataBranch(received[e.off].d) # "else"
                    /\ e.value.d["timestamp"] = Str(SENTINEL) =>
                          \/ ProcessDataBranch(received[e.off].d) = "except"
                          \/ Strftime(was.n, tz.hours) = SENTINEL

\* Under a schema that declares timestamp as long, a record whose time stamp
\* is an integer too large to convert was validated and delivered with the
\* sentinel in place of the integer.
C19_Witness ==
    /\ mode = "main"
    /\ DeclaresLongTimestamp(schema)
    /\ \E e \in Range(outTopic) :
          /\ received[e.off].d["timestamp"] = Two40
          /\ ProcessDataBranch(received[e.off].d) = "except"
          /\ e.value.d["timestamp"] = Str(SENTINEL)

=============================================================================
